---- MODULE Spec2Model ----
(***************************************************************************)
(* The draft/publish workflow of easymode.easypublisher.admin.EasyPublisher *)
(* (src/venv/Lib/site-packages/easymode/easypublisher/admin.py).            *)
(*                                                                         *)
(* The state is the database (the rows of the admin's model, the reversion *)
(* Revision/Version tables with their EasyPublisherMetaData rows, the      *)
(* user's message_set, the admin log), the configuration of the admin      *)
(* class, and the dictionary registered as extra_context of the 'current'  *)
(* URL.  One action per admin view and request method; a view is an        *)
(* operator from the state and the request to an Outcome (the unit of work *)
(* and the response), so that a claim about a response quantifies over the *)
(* requests that can be sent in a reachable state.                         *)
(*                                                                         *)
(* Specifications                                                          *)
(*  - Spec: the views on objects that exist, without many-to-many fields;  *)
(*  - SpecAdd: the same views and the add view, from an empty table;       *)
(*  - SpecM2M: Spec for a model with many-to-many fields;                  *)
(*  - SpecRevisionForm: the inline formset the publish view rebuilds from  *)
(*    a revision on GET, over the revisions and live rows it may find;     *)
(*  - SpecPolls: IndexView of the polls application (src/polls/views.py).  *)
(*                                                                         *)
(* Conventions                                                             *)
(*  - a user is modelled by whether has_perm(                              *)
(*    "easypublisher.can_approve_for_publication") answers True;           *)
(*  - request.LANGUAGE_CODE and get_language() are the same value, the     *)
(*    language the locale middleware activated for the request;            *)
(*  - primary keys are allocated in increasing order, no revision is ever  *)
(*    deleted, and a queryset without order_by yields rows in primary-key  *)
(*    order, so revision r is the r-th element of revisions;               *)
(*  - None is modelled by 0 (no revision has primary key 0);                *)
(*  - self.message_user() hands its text to the messages framework, which  *)
(*    carries it with the response; only message_set.create() adds a row.  *)
(***************************************************************************)
EXTENDS Integers, Sequences, FiniteSets, TLC

\* Number of objects of the admin's model (and of the inline model).
MaxObjects == 2
\* Revisions the Revision table may hold.
MaxRevisions == 3
\* Field values are 0..MaxValue.
MaxValue == 1
\* The admin has 0..MaxInlines inline formsets.
MaxInlines == 1
\* Rows the user's message_set may hold.
MaxMessages == 1
\* Questions the polls application may hold.
MaxQuestions == 6
\* Publication dates are 0..MaxDate.
MaxDate == 2
\* Versions of inline objects a revision may hold beside the version of the
\* object itself.
MaxVersions == 3

Objects == 1..MaxObjects
Values == 0..MaxValue
LANGUAGES == {"en", "fr"}
PUBLICATION_STATUSSES == {"published", "draft", "needs_work", "updated", "declined"}

\* Content types: the admin's model and the model of its inlines.
MODEL == "model"
INLINE == "inline"

\* The inline objects have the primary keys of Objects; the inline object k
\* points (foreign key) to the object fk(k), a different object when there
\* are several, so that object ids of the two content types overlap.  Of an
\* inline row only its primary key is modelled, not its columns.
fk(k) == (k % MaxObjects) + 1

VARIABLES
  db,               \* rows of self.model: pk -> [value, published, m2m]
  revisions,        \* Revision table with version_set and easypublishermetadata_set
  message_set,      \* number of rows in the user's message_set
  log_entries,      \* number of admin LogEntry rows
  inline_instances, \* number of inlines of the admin class
  m2m_fields,       \* whether self.model has many-to-many fields
  extra_context,    \* 'has_draft' of the dict registered with the 'current' URL (0: absent)
  questions,        \* rows of polls Question: pk -> pub_date
  latest_question_list, \* what the last request to IndexView listed (pks)
  revision_versions,    \* version.revision.version_set.all() with the field_dict of each version
  related_objects,      \* live rows of the inline model: pk -> [fk, value]
  formset               \* the inline formset rebuilt by the last GET: its instance and initial

polls_vars == <<questions, latest_question_list>>
formset_vars == <<revision_versions, related_objects, formset>>

vars == <<db, revisions, message_set, log_entries, inline_instances,
          m2m_fields, extra_context, polls_vars, formset_vars>>

(***************************************************************************)
(* Records                                                                 *)
(***************************************************************************)
\* A reversion Version: the snapshot of one object taken when the revision
\* was saved, identified by the object it is a snapshot of.
Version(content_type, object_id) ==
  [content_type |-> content_type, object_id |-> object_id]

\* An EasyPublisherMetaData row (its revision is the revision holding it).
MetaData(status, language) == [status |-> status, language |-> language]

\* A reversion Revision with its related rows.
Revision(version_set, metadata, comment) ==
  [version_set |-> version_set, easypublishermetadata_set |-> metadata,
   comment |-> comment]

\* Whether revision rev holds a version of the object (object_id, content_type):
\* the join revision__version__object_id / revision__version__content_type.
HoldsVersion(rev, object_id, content_type) ==
  \E ver \in rev.version_set :
    ver.object_id = object_id /\ ver.content_type = content_type

\* Whether one metadata row of rev has both the status and the language.
HoldsMetaData(rev, status, language) ==
  \E i \in DOMAIN rev.easypublishermetadata_set :
    /\ rev.easypublishermetadata_set[i].status = status
    /\ rev.easypublishermetadata_set[i].language = language

\* Revision rev is a draft: one of its metadata rows has status 'draft'.
IsDraft(rev) ==
  \E i \in DOMAIN rev.easypublishermetadata_set :
    rev.easypublishermetadata_set[i].status = "draft"

(***************************************************************************)
(* Queries                                                                 *)
(***************************************************************************)
\* Mutant of get_draft_revisions: the filter on the language is missing.
get_draft_revisions_any_language(revs, object_id, language) ==
  {r \in DOMAIN revs : /\ HoldsVersion(revs[r], object_id, MODEL)
                       /\ IsDraft(revs[r])}

\* get_draft_revisions: the revisions marked as draft in the active language
\* that hold a version of object_id (ids, in primary-key order).
get_draft_revisions(revs, object_id, language) ==
  {r \in DOMAIN revs : /\ HoldsVersion(revs[r], object_id, MODEL)
                       /\ HoldsMetaData(revs[r], "draft", language)}

\* get_draft_versions: the versions of object_id whose revision is marked as
\* draft in the active language, as (object_id, revision id) pairs.
get_draft_versions(revs, object_id, language) ==
  {<<object_id, r>> : r \in get_draft_revisions(revs, object_id, language)}

has_draft(revs, object_id, language) ==
  Cardinality(get_draft_revisions(revs, object_id, language))

\* Mutant of get_latest_draft_revision: revisions[0], the oldest draft.
get_first_draft_revision(revs, object_id, language) ==
  LET drafts == get_draft_revisions(revs, object_id, language)
  IN IF has_draft(revs, object_id, language) # 0
     THEN CHOOSE r \in drafts : \A q \in drafts : r <= q
     ELSE 0

\* revisions[num_revisions-1], or None.
get_latest_draft_revision(revs, object_id, language) ==
  LET drafts == get_draft_revisions(revs, object_id, language)
  IN IF has_draft(revs, object_id, language) # 0
     THEN CHOOSE r \in drafts : \A q \in drafts : q <= r
     ELSE 0

get_latest_draft(revs, object_id, language) ==
  get_latest_draft_revision(revs, object_id, language)

(***************************************************************************)
(* update_draft                                                            *)
(***************************************************************************)
\* Mutant of decline_others: only the rows that are still 'draft' are declined.
decline_only_drafts(revs, version) ==
  [r \in DOMAIN revs |->
     IF HoldsVersion(revs[r], version.object_id, version.content_type)
     THEN [revs[r] EXCEPT !.easypublishermetadata_set =
             [j \in DOMAIN @ |-> IF @[j].status = "draft"
                                 THEN [@[j] EXCEPT !.status = "declined"]
                                 ELSE @[j]]]
     ELSE revs[r]]

\* Mutant of decline_others: the rows of the revision that is being
\* published are left out, only the other revisions are declined.
decline_other_revisions(revs, version) ==
  [r \in DOMAIN revs |->
     IF r # version.revision
        /\ HoldsVersion(revs[r], version.object_id, version.content_type)
     THEN [revs[r] EXCEPT !.easypublishermetadata_set =
             [j \in DOMAIN @ |-> [@[j] EXCEPT !.status = "declined"]]]
     ELSE revs[r]]

\* The inner loop of update_draft: every metadata row whose revision holds a
\* version of the object is saved as declined.
decline_others(revs, version) ==
  [r \in DOMAIN revs |->
     IF HoldsVersion(revs[r], version.object_id, version.content_type)
     THEN [revs[r] EXCEPT !.easypublishermetadata_set =
             [j \in DOMAIN @ |-> [@[j] EXCEPT !.status = "declined"]]]
     ELSE revs[r]]

\* One pass of the outer loop over the rows loaded from
\* version.revision.easypublishermetadata_set.all(); loaded[i] is the row as
\* it was read when the loop started, and metadata.save() writes it back.
RECURSIVE update_draft_loop(_, _, _, _, _)
update_draft_loop(revs, version, can_approve, loaded, i) ==
  IF i > Len(loaded) THEN revs
  ELSE LET others == IF can_approve THEN decline_others(revs, version) ELSE revs
           status == IF can_approve THEN "published" ELSE "updated"
           saved  == [others EXCEPT
                        ![version.revision].easypublishermetadata_set[i] =
                            [loaded[i] EXCEPT !.status = status]]
       IN update_draft_loop(saved, version, can_approve, loaded, i + 1)

\* Mutant of update_draft: the inner loop is missing, the rows of the
\* revision get their new status and no other row is touched.
update_draft_keeps_others(revs, version, can_approve) ==
  [revs EXCEPT ![version.revision].easypublishermetadata_set =
     [j \in DOMAIN @ |->
        [@[j] EXCEPT !.status = IF can_approve THEN "published" ELSE "updated"]]]

\* Mutant of update_draft: the other drafts are declined whatever the
\* permission of the user.
update_draft_declines_regardless(revs, version, can_approve) ==
  update_draft_loop(decline_others(revs, version), version, can_approve,
                    revs[version.revision].easypublishermetadata_set, 1)

update_draft(revs, version, can_approve) ==
  update_draft_loop(revs, version, can_approve,
                    revs[version.revision].easypublishermetadata_set, 1)

(***************************************************************************)
(* The unit of work of one request: the database as the request sees it    *)
(* inside its transaction, and the revision reversion is building          *)
(* (objects: the instances added to it, meta: the add_meta calls).         *)
(***************************************************************************)
Begin ==
  [db |-> db, revisions |-> revisions,
   message_set |-> message_set, log_entries |-> log_entries,
   objects |-> {}, meta |-> <<>>, comment |-> ""]

\* reversion.revision.post_save_receiver(instance, 0): the instance joins the
\* set of objects of the revision being built (one entry per object).
post_save_receiver(tx, content_type, object_id) ==
  [tx EXCEPT !.objects = @ \cup {Version(content_type, object_id)}]

\* reversion.revision.add_meta(EasyPublisherMetaData, status=..., language=...)
add_meta(tx, status, language) ==
  [tx EXCEPT !.meta = Append(@, MetaData(status, language))]

\* obj.save(): the row of the object is written with the fields of the
\* instance (inserted when the object is new; its many-to-many relations are
\* rows of another table, empty for a new object).
save(table, object_id, obj) ==
  [o \in DOMAIN table \cup {object_id} |->
     IF o = object_id
     THEN [value |-> obj.value, published |-> obj.published,
           m2m |-> IF o \in DOMAIN table THEN table[o].m2m ELSE 0]
     ELSE table[o]]

\* Mutant of save_model: obj.save() is called in both branches.
save_model_always_saves(tx, can_approve, language, object_id, obj, change) ==
  LET saved == [tx EXCEPT !.db = save(@, object_id, obj)]
  IN IF can_approve
     THEN post_save_receiver(saved, MODEL, object_id)
     ELSE post_save_receiver(
            [add_meta(saved, "draft", language) EXCEPT !.comment = "Draft"],
            MODEL, object_id)

\* Mutant of save_model: the new object of a user without the permission is
\* stored as the form posted it, published.
save_model_stores_published(tx, can_approve, language, object_id, obj, change) ==
  IF can_approve
  THEN post_save_receiver([tx EXCEPT !.db = save(@, object_id, obj)],
                          MODEL, object_id)
  ELSE LET drafted == [add_meta(tx, "draft", language) EXCEPT !.comment = "Draft"]
           stored  == IF ~change
                      THEN [drafted EXCEPT !.db = save(@, object_id, obj)]
                      ELSE drafted
       IN post_save_receiver(stored, MODEL, object_id)

\* save_model: obj.save() with the permission (the post_save signal adds the
\* object to the revision); without it only a draft in the revision, except
\* that a new object with a 'published' field is stored unpublished.
save_model(tx, can_approve, language, object_id, obj, change) ==
  IF can_approve
  THEN post_save_receiver([tx EXCEPT !.db = save(@, object_id, obj)],
                          MODEL, object_id)
  ELSE LET drafted == [add_meta(tx, "draft", language) EXCEPT !.comment = "Draft"]
           stored  == IF ~change
                      THEN [drafted EXCEPT !.db =
                              save(@, object_id, [obj EXCEPT !.published = FALSE])]
                      ELSE drafted
       IN post_save_receiver(stored, MODEL, object_id)

RECURSIVE receive_all(_, _)
receive_all(tx, instances) ==
  IF instances = {} THEN tx
  ELSE LET k == CHOOSE x \in instances : TRUE
       IN receive_all(post_save_receiver(tx, INLINE, k), instances \ {k})

\* save_formset: instances are the inline objects whose forms changed.  With
\* the permission formset.save() stores them (their post_save signals add
\* them to the revision); without it one more 'draft' metadata, and the
\* instances join the revision unsaved.
save_formset(tx, can_approve, language, instances) ==
  IF can_approve
  THEN receive_all(tx, instances)
  ELSE receive_all(add_meta(tx, "draft", language), instances)

RECURSIVE save_formsets(_, _, _, _, _)
save_formsets(tx, can_approve, language, formsets, n) ==
  IF n > Len(formsets) THEN tx
  ELSE save_formsets(save_formset(tx, can_approve, language, formsets[n]),
                     can_approve, language, formsets, n + 1)

\* self.log_change(...): one more LogEntry row.
log_change(tx) == [tx EXCEPT !.log_entries = @ + 1]

\* request.user.message_set.create(...): one more row for the user.
message_set_create(tx) == [tx EXCEPT !.message_set = @ + 1]

\* @reversion.revision.create_on_success: when the view returns normally and
\* objects were added, the revision, its versions and its metadata are saved;
\* when it raises, the revision is dropped.
create_on_success(tx, raised) ==
  IF ~raised /\ tx.objects # {}
  THEN [tx EXCEPT !.revisions =
          Append(@, Revision(tx.objects, tx.meta, tx.comment))]
  ELSE tx

\* Mutant of commit_on_success: the view runs without the decorator, what it
\* wrote stays.
commit_always(before, tx, raised) == tx

\* @transaction.commit_on_success: commit when the view returns normally,
\* roll back to the state before the request when it raises.
commit_on_success(before, tx, raised) == IF raised THEN before ELSE tx

\* form.save_m2m(): the posted many-to-many data is written to the database.
save_m2m(tx, object_id, m2m) == [tx EXCEPT !.db[object_id].m2m = m2m]

(***************************************************************************)
(* Responses                                                               *)
(***************************************************************************)
\* The outcome of a view: the unit of work, whether the view raised, and the
\* response (template rendered or redirect location, the revision whose data
\* fills the form, context['has_draft'], and whether context['errors'] lists
\* errors: it does when a bound form or formset did not validate).
Outcome(tx, raised, response, location, pk, has_draft_ctx) ==
  [tx |-> tx, raised |-> raised, response |-> response, location |-> location,
   pk |-> pk, has_draft |-> has_draft_ctx, errors |-> FALSE]

\* The steps of a save that may raise.
RAISES == {"", "save_model", "save_formset", "update_draft"}

\* self.save_form(request, form, change): the instance with the posted fields,
\* not yet saved.
save_form(post) == [value |-> post.value, published |-> post.published]

\* The inline objects of object_id, and what the inline formsets post: in
\* each formset the forms of the inline objects of object_id have changed.
Children(object_id) == {k \in Objects : fk(k) = object_id}
FormsetData(object_id, n) == [1..n -> {Children(object_id)}]

(***************************************************************************)
(* render_revision_form                                                    *)
(***************************************************************************)
\* Mutant of render_revision_form: the test before the save looks at the
\* main form only, not at all_valid(formsets).
render_revision_form_ignores_formsets(tx, can_approve, language, object_id, version, method, post) ==
  IF method = "POST" /\ post.is_valid
  THEN LET s1 == save_model(tx, can_approve, language, object_id, save_form(post), TRUE)
           s2 == save_m2m(s1, object_id, post.m2m)
           s3 == save_formsets(s2, can_approve, language, post.formsets, 1)
           s4 == [s3 EXCEPT !.revisions = update_draft(@, version, can_approve)]
           s5 == log_change(s4)
       IN CASE post.raises = "save_model"   -> Outcome(tx, TRUE, "500", "", 0, 0)
            [] post.raises = "save_formset"
                                            -> Outcome(s2, TRUE, "500", "", 0, 0)
            [] post.raises = "update_draft" -> Outcome(s3, TRUE, "500", "", 0, 0)
            [] OTHER -> Outcome(s5, FALSE, "redirect", "../../", 0, 0)
  ELSE [Outcome(tx, FALSE, "revision_form", "", version.revision, 1)
          EXCEPT !.errors = (method = "POST")]

\* post is the posted data: value and m2m of the main form, the formsets,
\* whether the form and the formsets validate, and the step that raises.
\* A POST that does not validate falls through to the rendering of the form,
\* bound to the posted data, with its errors.
render_revision_form(tx, can_approve, language, object_id, version, method, post) ==
  IF method = "POST" /\ post.is_valid /\ post.all_valid
  THEN LET s1 == save_model(tx, can_approve, language, object_id, save_form(post), TRUE)
           s2 == save_m2m(s1, object_id, post.m2m)
           s3 == save_formsets(s2, can_approve, language, post.formsets, 1)
           s4 == [s3 EXCEPT !.revisions = update_draft(@, version, can_approve)]
           s5 == log_change(s4)
       IN CASE post.raises = "save_model"   -> Outcome(tx, TRUE, "500", "", 0, 0)
            [] post.raises = "save_formset"
                                            -> Outcome(s2, TRUE, "500", "", 0, 0)
            [] post.raises = "update_draft" -> Outcome(s3, TRUE, "500", "", 0, 0)
            [] OTHER -> Outcome(s5, FALSE, "redirect", "../../", 0, 0)
  ELSE [Outcome(tx, FALSE, "revision_form", "", version.revision, 1)
          EXCEPT !.errors = (method = "POST")]

(***************************************************************************)
(* publish_view                                                            *)
(***************************************************************************)
\* Mutant of publish_view: the test for a draft in the language lacks its
\* "not".
publish_view_inverted_test(tx, can_approve, language, object_id, revision_id, method, post) ==
  IF ~(object_id \in DOMAIN tx.db /\ revision_id \in DOMAIN tx.revisions
       /\ HoldsVersion(tx.revisions[revision_id], object_id, MODEL))
  THEN Outcome(tx, TRUE, "404", "", 0, 0)
  ELSE IF \E i \in DOMAIN tx.revisions[revision_id].easypublishermetadata_set :
            tx.revisions[revision_id].easypublishermetadata_set[i].language = language
  THEN Outcome(message_set_create(tx), FALSE, "redirect", "../../current", 0, 0)
  ELSE render_revision_form(tx, can_approve, language, object_id,
         [revision |-> revision_id, object_id |-> object_id, content_type |-> MODEL],
         method, post)

\* Mutant of publish_view: the test for a draft does not filter on the
\* language.
publish_view_any_language(tx, can_approve, language, object_id, revision_id, method, post) ==
  IF ~(object_id \in DOMAIN tx.db /\ revision_id \in DOMAIN tx.revisions
       /\ HoldsVersion(tx.revisions[revision_id], object_id, MODEL))
  THEN Outcome(tx, TRUE, "404", "", 0, 0)
  ELSE IF tx.revisions[revision_id].easypublishermetadata_set = <<>>
  THEN Outcome(message_set_create(tx), FALSE, "redirect", "../../current", 0, 0)
  ELSE render_revision_form(tx, can_approve, language, object_id,
         [revision |-> revision_id, object_id |-> object_id, content_type |-> MODEL],
         method, post)

publish_view(tx, can_approve, language, object_id, revision_id, method, post) ==
  IF ~(object_id \in DOMAIN tx.db /\ revision_id \in DOMAIN tx.revisions
       /\ HoldsVersion(tx.revisions[revision_id], object_id, MODEL))
  THEN Outcome(tx, TRUE, "404", "", 0, 0)
  ELSE IF ~\E i \in DOMAIN tx.revisions[revision_id].easypublishermetadata_set :
             tx.revisions[revision_id].easypublishermetadata_set[i].language = language
  THEN Outcome(message_set_create(tx), FALSE, "redirect", "../../current", 0, 0)
  ELSE render_revision_form(tx, can_approve, language, object_id,
         [revision |-> revision_id, object_id |-> object_id, content_type |-> MODEL],
         method, post)

(***************************************************************************)
(* change_view                                                             *)
(***************************************************************************)
\* context['has_draft'] after "if latest_draft": through the 'current' URL
\* context is the dictionary registered in get_urls (shared is its
\* 'has_draft', 0 when absent), otherwise a fresh dictionary.
context_has_draft(latest_draft, current, shared) ==
  IF latest_draft # 0 THEN latest_draft
  ELSE IF current THEN shared ELSE 0

\* super().change_view of the admin: the editing view of the live object
\* (Http404 when there is none); a valid POST saves through save_model,
\* save_m2m and save_formset.
admin_change_view(tx, can_approve, language, object_id, method, post, ctx) ==
  IF object_id \notin DOMAIN tx.db
  THEN Outcome(tx, TRUE, "404", "", 0, 0)
  ELSE IF method = "POST" /\ post.is_valid /\ post.all_valid
  THEN LET s1 == save_model(tx, can_approve, language, object_id, save_form(post), TRUE)
           s2 == save_m2m(s1, object_id, post.m2m)
           s3 == save_formsets(s2, can_approve, language, post.formsets, 1)
           s4 == log_change(s3)
       IN CASE post.raises = "save_model"   -> Outcome(tx, TRUE, "500", "", 0, 0)
            [] post.raises = "save_formset"
                                            -> Outcome(s2, TRUE, "500", "", 0, 0)
            [] OTHER -> Outcome(s4, FALSE, "redirect", "../", 0, 0)
  ELSE Outcome(tx, FALSE, "change_form", "", 0, ctx)

change_view(tx, can_approve, language, object_id, current, shared, method, post) ==
  LET latest_draft == get_latest_draft(tx.revisions, object_id, language)
      ctx == context_has_draft(latest_draft, current, shared)
  IN IF latest_draft # 0 /\ ~current /\ ~can_approve
     THEN Outcome(tx, FALSE, "redirect", "drafts/%s/", latest_draft, 0)
     ELSE admin_change_view(tx, can_approve, language, object_id, method, post, ctx)

(***************************************************************************)
(* add_view                                                                *)
(***************************************************************************)
\* The primary key the database gives to the next object of self.model.
next_pk(table) == Cardinality(DOMAIN table) + 1

\* The add view of the admin: a valid POST creates the object through
\* save_model with change=False, then save_m2m and save_formset; the
\* instance gets its primary key when save_model stores it.
add_view(tx, can_approve, language, method, post) ==
  IF method = "POST" /\ post.is_valid /\ post.all_valid
  THEN LET object_id == next_pk(tx.db)
           s1 == save_model(tx, can_approve, language, object_id, save_form(post), FALSE)
           s2 == save_m2m(s1, object_id, post.m2m)
           s3 == save_formsets(s2, can_approve, language, post.formsets, 1)
           s4 == log_change(s3)
       IN CASE post.raises = "save_model"   -> Outcome(tx, TRUE, "500", "", 0, 0)
            [] post.raises = "save_formset"
                                            -> Outcome(s2, TRUE, "500", "", 0, 0)
            [] OTHER -> Outcome(s4, FALSE, "redirect", "../", 0, 0)
  ELSE Outcome(tx, FALSE, "change_form", "", 0, 0)

\* EasyPublisherModelManager.get_query_set: only the published items.
get_query_set(table) == {o \in DOMAIN table : table[o].published}

(***************************************************************************)
(* drafts_view                                                             *)
(***************************************************************************)
\* The history template with the list of drafts (super().history_view raises
\* Http404 for an object that does not exist); nothing is written.
drafts_view(tx, language, object_id) ==
  IF object_id \notin DOMAIN tx.db
  THEN Outcome(tx, TRUE, "404", "", 0, 0)
  ELSE Outcome(tx, FALSE, "object_history", "", 0,
               has_draft(tx.revisions, object_id, language))

(***************************************************************************)
(* Requests                                                                *)
(***************************************************************************)
NoPost == [value |-> 0, published |-> TRUE, m2m |-> 0, formsets |-> <<>>,
           is_valid |-> FALSE, all_valid |-> FALSE, raises |-> ""]

\* What a POST may carry for object_id.  A POST that does not validate or
\* that raises is represented once per cause: its data is never stored.  A
\* form of a model without many-to-many fields posts no such data.  The
\* 'published' checkbox is posted checked: that is how the form shows it for
\* a published object and for every revision (save_model puts published=True
\* into the snapshot of a draft).
Posts(object_id) ==
  {p \in [value : Values, published : {TRUE},
          m2m : IF m2m_fields THEN Values ELSE {0},
          formsets : FormsetData(object_id, inline_instances),
          is_valid : BOOLEAN, all_valid : BOOLEAN, raises : RAISES] :
     /\ (~p.is_valid \/ ~p.all_valid \/ p.raises # "") =>
          /\ p.value = MaxValue /\ p.m2m = 0
     /\ (~p.is_valid \/ ~p.all_valid) => p.raises = ""
     /\ p.raises = "save_formset" => inline_instances > 0}

\* The POSTs that validate and do not raise.
ValidPosts(object_id) ==
  {p \in Posts(object_id) : p.is_valid /\ p.all_valid /\ p.raises = ""}

\* The request ends: the revision is created if the view returned normally,
\* and the transaction commits or rolls back.
After(out) ==
  commit_on_success(Begin, create_on_success(out.tx, out.raised), out.raised)

\* The database becomes what the request left; a request that would exceed
\* the bounds of the model is not taken.
Finish(out) ==
  LET done == After(out)
  IN /\ Len(done.revisions) <= MaxRevisions
     /\ done.message_set <= MaxMessages
     /\ db' = done.db
     /\ revisions' = done.revisions
     /\ message_set' = done.message_set
     /\ log_entries' = done.log_entries

\* The views on the current state.
ChangeViewOut(object_id, can_approve, language, current, method, post) ==
  change_view(Begin, can_approve, language, object_id, current, extra_context,
              method, post)

PublishViewOut(object_id, revision_id, can_approve, language, method, post) ==
  publish_view(Begin, can_approve, language, object_id, revision_id, method, post)

\* 'has_draft' of the dictionary registered with the 'current' URL after a
\* change_view request: change_view writes into it when the request came
\* through that URL.
shared_after(object_id, language, current) ==
  IF current
  THEN context_has_draft(get_latest_draft(revisions, object_id, language),
                         current, extra_context)
  ELSE extra_context

Init ==
  /\ db = [o \in Objects |-> [value |-> 0, published |-> TRUE, m2m |-> 0]]
  /\ revisions = <<>>
  /\ message_set = 0
  /\ log_entries = 0
  /\ inline_instances \in 0..MaxInlines
  /\ m2m_fields = FALSE
  /\ extra_context = 0
  /\ questions = <<>>
  /\ latest_question_list = <<>>
  /\ revision_versions = <<>>
  /\ related_objects = <<>>
  /\ formset = [instance |-> 0, initial |-> <<>>]

ChangeViewGet ==
  \E object_id \in Objects, can_approve \in BOOLEAN, language \in LANGUAGES,
     current \in BOOLEAN :
    /\ Finish(ChangeViewOut(object_id, can_approve, language, current, "GET", NoPost))
    /\ extra_context' = shared_after(object_id, language, current)
    /\ UNCHANGED <<polls_vars, formset_vars, inline_instances, m2m_fields>>

ChangeViewPost ==
  \E object_id \in Objects, can_approve \in BOOLEAN, language \in LANGUAGES,
     current \in BOOLEAN :
    \E post \in Posts(object_id) :
      /\ post.raises # "update_draft"
      /\ Finish(ChangeViewOut(object_id, can_approve, language, current, "POST", post))
      /\ extra_context' = shared_after(object_id, language, current)
      /\ UNCHANGED <<polls_vars, formset_vars, inline_instances, m2m_fields>>

DraftsView ==
  \E object_id \in Objects, language \in LANGUAGES :
    /\ Finish(drafts_view(Begin, language, object_id))
    /\ UNCHANGED <<polls_vars, formset_vars, inline_instances, m2m_fields, extra_context>>

PublishViewGet ==
  \E object_id \in Objects, revision_id \in DOMAIN revisions,
     can_approve \in BOOLEAN, language \in LANGUAGES :
    /\ Finish(PublishViewOut(object_id, revision_id, can_approve, language,
                             "GET", NoPost))
    /\ UNCHANGED <<polls_vars, formset_vars, inline_instances, m2m_fields, extra_context>>

PublishViewPost ==
  \E object_id \in Objects, revision_id \in DOMAIN revisions,
     can_approve \in BOOLEAN, language \in LANGUAGES :
    \E post \in Posts(object_id) :
      /\ Finish(PublishViewOut(object_id, revision_id, can_approve, language,
                               "POST", post))
      /\ UNCHANGED <<polls_vars, formset_vars, inline_instances, m2m_fields, extra_context>>

\* The add view on the current state.
AddViewOut(can_approve, language, method, post) ==
  add_view(Begin, can_approve, language, method, post)

\* A database without objects yet: every object is created through the add
\* view.
InitAdd ==
  /\ db = <<>>
  /\ revisions = <<>>
  /\ message_set = 0
  /\ log_entries = 0
  /\ inline_instances \in 0..MaxInlines
  /\ m2m_fields = FALSE
  /\ extra_context = 0
  /\ questions = <<>>
  /\ latest_question_list = <<>>
  /\ revision_versions = <<>>
  /\ related_objects = <<>>
  /\ formset = [instance |-> 0, initial |-> <<>>]

AddView ==
  \E can_approve \in BOOLEAN, language \in LANGUAGES :
    \E post \in Posts(next_pk(db)) :
      /\ next_pk(db) <= MaxObjects
      /\ post.raises # "update_draft"
      /\ Finish(AddViewOut(can_approve, language, "POST", post))
      /\ UNCHANGED <<polls_vars, formset_vars, inline_instances, m2m_fields, extra_context>>

Next ==
  \/ ChangeViewGet
  \/ ChangeViewPost
  \/ DraftsView
  \/ PublishViewGet
  \/ PublishViewPost

Spec == Init /\ [][Next]_vars

\* An admin without inlines whose model has many-to-many fields.
InitM2M ==
  /\ db = [o \in Objects |-> [value |-> 0, published |-> TRUE, m2m |-> 0]]
  /\ revisions = <<>>
  /\ message_set = 0
  /\ log_entries = 0
  /\ inline_instances = 0
  /\ m2m_fields = TRUE
  /\ extra_context = 0
  /\ questions = <<>>
  /\ latest_question_list = <<>>
  /\ revision_versions = <<>>
  /\ related_objects = <<>>
  /\ formset = [instance |-> 0, initial |-> <<>>]

SpecM2M == InitM2M /\ [][Next]_vars

NextAdd ==
  \/ AddView
  \/ ChangeViewGet
  \/ ChangeViewPost
  \/ DraftsView
  \/ PublishViewGet
  \/ PublishViewPost

SpecAdd == InitAdd /\ [][NextAdd]_vars

(***************************************************************************)
(* polls: IndexView (src/polls/views.py)                                   *)
(***************************************************************************)
\* order_by('-pub_date') on the rows still to be listed: the orders the
\* database may answer with, newest first; it is free to list rows of equal
\* pub_date either way.
RECURSIVE order_by(_, _)
order_by(table, rows) ==
  IF rows = {} THEN {<<>>}
  ELSE UNION {{<<q>> \o rest : rest \in order_by(table, rows \ {q})} :
                q \in {x \in rows : \A y \in rows : table[y] <= table[x]}}

\* Mutant of get_queryset: order_by('pub_date'), the oldest first.
RECURSIVE order_by_ascending(_, _)
order_by_ascending(table, rows) ==
  IF rows = {} THEN {<<>>}
  ELSE UNION {{<<q>> \o rest : rest \in order_by_ascending(table, rows \ {q})} :
                q \in {x \in rows : \A y \in rows : table[x] <= table[y]}}

get_queryset_oldest_first(table) ==
  {SubSeq(s, 1, IF Len(s) < 5 THEN Len(s) ELSE 5) :
     s \in order_by_ascending(table, DOMAIN table)}

\* IndexView.get_queryset: Question.objects.order_by('-pub_date')[:5], the
\* lists it may return.
get_queryset(table) ==
  {SubSeq(s, 1, IF Len(s) < 5 THEN Len(s) ELSE 5) :
     s \in order_by(table, DOMAIN table)}

\* A question is added through the admin of the polls application.
QuestionAdd ==
  \E pub_date \in 0..MaxDate :
    /\ Len(questions) < MaxQuestions
    /\ questions' = Append(questions, pub_date)
    /\ latest_question_list' = <<>>
    /\ UNCHANGED <<db, revisions, message_set, log_entries, inline_instances,
                   m2m_fields, extra_context, formset_vars>>

\* A request to IndexView lists what get_queryset returns.
IndexViewGet ==
  \E result \in get_queryset(questions) :
    /\ latest_question_list' = result
    /\ UNCHANGED <<db, revisions, message_set, log_entries, inline_instances,
                   m2m_fields, extra_context, questions, formset_vars>>

NextPolls ==
  \/ QuestionAdd
  \/ IndexViewGet

\* The polls application starts without questions; its views do not touch
\* the tables of the publisher.
InitPolls == Init /\ inline_instances = 0

SpecPolls == InitPolls /\ [][NextPolls]_vars

(***************************************************************************)
(* render_revision_form on GET: the inline formset rebuilt from the        *)
(* revision.  A field_dict has the keys id, fk_name (the foreign key to    *)
(* the object of the admin) and value; Version.field_dict answers with the *)
(* same dictionary each time it is read, which is what lets "del           *)
(* initial_row['id']" find the id already deleted.  A version is named by  *)
(* its place in revision_versions; the object id of a version of an        *)
(* unsaved instance is 'None', modelled by 0.                              *)
(***************************************************************************)
\* A key that is not in a dictionary.
ABSENT == -1

\* The versions of a revision: of the object itself, and of inline objects.
ObjectVersion(object_id) ==
  [content_type |-> MODEL, object_id |-> object_id,
   field_dict |-> [id |-> object_id, fk_name |-> 0, value |-> 0]]

RelatedVersion(object_id, parent, value) ==
  [content_type |-> INLINE, object_id |-> object_id,
   field_dict |-> [id |-> object_id, fk_name |-> parent, value |-> value]]

\* The elements of a set of numbers in ascending order.
RECURSIVE Ascending(_)
Ascending(S) ==
  IF S = {} THEN <<>>
  ELSE LET m == CHOOSE x \in S : \A y \in S : x <= y
       IN <<m>> \o Ascending(S \ {m})

\* The orders in which the items of a dict may be listed.
RECURSIVE Orders(_)
Orders(S) ==
  IF S = {} THEN {<<>>}
  ELSE UNION {{<<x>> \o rest : rest \in Orders(S \ {x})} : x \in S}

Range(s) == {s[n] : n \in DOMAIN s}

\* The place of x in the list s.
Pos(s, x) == CHOOSE n \in DOMAIN s : s[n] = x

\* related_versions as first computed: the versions of the revision, in its
\* order, that are of the model of the formset and whose foreign key is
\* object_id.
related_versions(versions, object_id) ==
  Ascending({i \in DOMAIN versions :
               /\ versions[i].content_type = INLINE
               /\ versions[i].field_dict.fk_name = object_id})

\* Mutant of deduplicate: of the versions with the same id the first is
\* kept, not the last.
deduplicate_keeps_first(versions, related) ==
  LET none == SelectSeq(related, LAMBDA i : versions[i].object_id = 0)
      keys == {versions[i].object_id : i \in Range(related)} \ {0}
      first(k) == CHOOSE i \in Range(related) :
                    /\ versions[i].object_id = k
                    /\ \A j \in Range(related) :
                         versions[j].object_id = k => Pos(related, i) <= Pos(related, j)
  IN {none \o items : items \in Orders({first(k) : k \in keys})}

\* The deduplication: the pairs with key 'None' in their order, followed by
\* the items of the dict built from the other pairs, in which a later pair
\* replaces an earlier one with the same key; the items come in the order
\* the dict happens to have.
deduplicate(versions, related) ==
  LET none == SelectSeq(related, LAMBDA i : versions[i].object_id = 0)
      keys == {versions[i].object_id : i \in Range(related)} \ {0}
      last(k) == CHOOSE i \in Range(related) :
                   /\ versions[i].object_id = k
                   /\ \A j \in Range(related) :
                        versions[j].object_id = k => Pos(related, j) <= Pos(related, i)
  IN {none \o items : items \in Orders({last(k) : k \in keys})}

\* formset.queryset: the live inline objects of object_id.
queryset(table, object_id) ==
  Ascending({k \in DOMAIN table : table[k].fk_name = object_id})

\* Mutant of initial_related_objs: a live object without a version gets its
\* row without DELETE.
initial_related_objs_keeps(versions, table, object_id, related) ==
  LET qs == queryset(table, object_id)
      match(k) == {i \in Range(related) : versions[i].object_id = k}
  IN [n \in DOMAIN qs |->
        IF match(qs[n]) # {}
        THEN <<"version", CHOOSE i \in match(qs[n]) :
                 \A j \in match(qs[n]) : Pos(related, j) <= Pos(related, i)>>
        ELSE <<"kept", qs[n]>>]

\* The first loop: one row for each live inline object, the field_dict of
\* its version in dict(related_versions) when there is one, else its live
\* values with DELETE.  A row is named by where it comes from.
initial_related_objs(versions, table, object_id, related) ==
  LET qs == queryset(table, object_id)
      match(k) == {i \in Range(related) : versions[i].object_id = k}
  IN [n \in DOMAIN qs |->
        IF match(qs[n]) # {}
        THEN <<"version", CHOOSE i \in match(qs[n]) :
                 \A j \in match(qs[n]) : Pos(related, j) <= Pos(related, i)>>
        ELSE <<"live", qs[n]>>]

\* The second loop, at the j-th of related_versions: the id is deleted from
\* its field_dict, and the field_dict is appended unless a row of initial
\* equals it: the same dictionary, or the field_dict of a version whose id
\* was deleted before, with the same foreign key and value.
RECURSIVE initial_related_versions(_, _, _, _)
initial_related_versions(versions, related, initial, j) ==
  IF j > Len(related) THEN initial
  ELSE LET i == related[j]
           deleted == {related[n] : n \in 1..j}
           equals(row) ==
             /\ row[1] = "version"
             /\ \/ row[2] = i
                \/ /\ row[2] \in deleted
                   /\ versions[row[2]].field_dict.fk_name = versions[i].field_dict.fk_name
                   /\ versions[row[2]].field_dict.value = versions[i].field_dict.value
       IN initial_related_versions(versions, related,
            IF \E n \in DOMAIN initial : equals(initial[n])
            THEN initial ELSE Append(initial, <<"version", i>>),
            j + 1)

\* What a row of initial holds when the loops are done.
initial_row(versions, table, related, row) ==
  IF row[1] = "version"
  THEN [source |-> row,
        id |-> IF row[2] \in Range(related) THEN ABSENT
               ELSE versions[row[2]].field_dict.id,
        fk_name |-> versions[row[2]].field_dict.fk_name,
        value |-> versions[row[2]].field_dict.value,
        DELETE |-> FALSE]
  ELSE [source |-> row, id |-> row[2], fk_name |-> table[row[2]].fk_name,
        value |-> table[row[2]].value, DELETE |-> (row[1] = "live")]

\* formset.initial, for each order the dict of the deduplication may have.
formset_initial(versions, table, object_id) ==
  {LET rows == initial_related_versions(versions, related,
                 initial_related_objs(versions, table, object_id, related), 1)
   IN [n \in DOMAIN rows |-> initial_row(versions, table, related, rows[n])] :
     related \in deduplicate(versions, related_versions(versions, object_id))}

\* The inline versions a revision may hold: no two are equal (reversion
\* keeps the instances of a revision in a set).
RelatedVersionLists ==
  {l \in UNION {[1..n -> {RelatedVersion(k, parent, value) :
                            k \in 0..MaxObjects, parent \in Objects,
                            value \in Values}] : n \in 0..MaxVersions} :
     \A a \in DOMAIN l, b \in DOMAIN l : a # b => l[a] # l[b]}

\* The live rows of the inline model.
RelatedTables ==
  UNION {[S -> [fk_name : Objects, value : Values]] : S \in SUBSET Objects}

\* A revision of object 1, a draft in 'en', with its versions and the live
\* inline objects, as the publish view finds them on GET.
InitRevisionForm ==
  /\ db = [o \in Objects |-> [value |-> 0, published |-> TRUE, m2m |-> 0]]
  /\ \E related \in RelatedVersionLists :
       revision_versions = <<ObjectVersion(1)>> \o related
  /\ revisions =
       <<Revision({Version(revision_versions[i].content_type,
                           revision_versions[i].object_id) :
                     i \in DOMAIN revision_versions},
                  <<MetaData("draft", "en")>>, "Draft")>>
  /\ related_objects \in RelatedTables
  /\ formset = [instance |-> 0, initial |-> <<>>]
  /\ message_set = 0
  /\ log_entries = 0
  /\ inline_instances = 1
  /\ m2m_fields = FALSE
  /\ extra_context = 0
  /\ questions = <<>>
  /\ latest_question_list = <<>>

\* GET of the publish view of the revision: the formset is rebuilt.
RevisionFormGet ==
  \E object_id \in Objects, can_approve \in BOOLEAN :
    /\ PublishViewOut(object_id, 1, can_approve, "en", "GET", NoPost).response
         = "revision_form"
    /\ \E initial \in formset_initial(revision_versions, related_objects, object_id) :
         formset' = [instance |-> object_id, initial |-> initial]
    /\ UNCHANGED <<db, revisions, message_set, log_entries, inline_instances,
                   m2m_fields, extra_context, polls_vars, revision_versions,
                   related_objects>>

NextRevisionForm == RevisionFormGet

SpecRevisionForm == InitRevisionForm /\ [][NextRevisionForm]_vars

(***************************************************************************)
(* Properties                                                              *)
(***************************************************************************)
\* A view answered with a redirect to location.
Redirects(out, location) ==
  ~out.raised /\ out.response = "redirect" /\ out.location = location

\* The metadata rows of revision r in the table revs.
MetaOf(revs, r) == revs[r].easypublishermetadata_set

\* The requests that can be sent: a user with or without the permission.
Users == BOOLEAN

\* A POST to the publish view was saved: the view answered with the redirect
\* that follows update_draft.
PublishSaved(out) == Redirects(out, "../../")

\* A POST to the change view was saved.
ChangeSaved(out) == Redirects(out, "../")

\* C1: a valid POST that changes an existing object (through the change view
\* or the publish view, both call save_model with change=True) leaves the
\* posted value in the object's row when the user holds
\* can_approve_for_publication; when the user lacks it the table of objects
\* is left as it was and the revision the request creates carries a
\* metadata row with status 'draft' in the language of the request.
C1_SaveModelWritesIffPermitted ==
  \A object_id \in Objects, can_approve \in Users, language \in LANGUAGES :
    \A post \in ValidPosts(object_id) :
      /\ \A current \in BOOLEAN :
           LET out  == ChangeViewOut(object_id, can_approve, language, current,
                                     "POST", post)
               done == After(out)
           IN ChangeSaved(out) =>
                IF can_approve
                THEN done.db[object_id].value = post.value
                ELSE /\ done.db = db
                     /\ Len(done.revisions) = Len(revisions) + 1
                     /\ HoldsMetaData(done.revisions[Len(done.revisions)],
                                      "draft", language)
      /\ \A revision_id \in DOMAIN revisions :
           LET out  == PublishViewOut(object_id, revision_id, can_approve,
                                      language, "POST", post)
               done == After(out)
           IN PublishSaved(out) =>
                IF can_approve
                THEN done.db[object_id].value = post.value
                ELSE /\ done.db = db
                     /\ Len(done.revisions) = Len(revisions) + 1
                     /\ HoldsMetaData(done.revisions[Len(done.revisions)],
                                      "draft", language)

\* Both cases have happened: an object whose row a permitted user has
\* changed, and an object still at its first value with a draft revision.
C1_Witness ==
  /\ \E o \in Objects : db[o].value # 0
  /\ \E o \in Objects, r \in DOMAIN revisions :
       /\ db[o].value = 0
       /\ HoldsVersion(revisions[r], o, MODEL)
       /\ IsDraft(revisions[r])

\* C2: after a user with the permission saves the publish view of a revision,
\* every metadata row of that revision has status 'published'.
C2_AllMetadataPublished ==
  \A object_id \in Objects, revision_id \in DOMAIN revisions,
     language \in LANGUAGES :
    \A post \in ValidPosts(object_id) :
      LET out == PublishViewOut(object_id, revision_id, TRUE, language,
                                "POST", post)
      IN PublishSaved(out) =>
           \A i \in DOMAIN MetaOf(After(out).revisions, revision_id) :
             MetaOf(After(out).revisions, revision_id)[i].status = "published"

\* C3: after a user with the permission saves the publish view of a revision,
\* every metadata row of every other revision that holds a version of the
\* same object has status 'declined'.
C3_OtherDraftsDeclined ==
  \A object_id \in Objects, revision_id \in DOMAIN revisions,
     language \in LANGUAGES :
    \A post \in ValidPosts(object_id) :
      LET out  == PublishViewOut(object_id, revision_id, TRUE, language,
                                 "POST", post)
          done == After(out)
      IN PublishSaved(out) =>
           \A q \in DOMAIN done.revisions :
             (q # revision_id /\ HoldsVersion(done.revisions[q], object_id, MODEL)) =>
               \A i \in DOMAIN MetaOf(done.revisions, q) :
                 MetaOf(done.revisions, q)[i].status = "declined"

\* A revision was published and another revision of the same object, which
\* has metadata, was declined with it.
C3_Witness ==
  \E o \in Objects, r \in DOMAIN revisions, q \in DOMAIN revisions :
    /\ r # q
    /\ HoldsVersion(revisions[r], o, MODEL)
    /\ HoldsVersion(revisions[q], o, MODEL)
    /\ HoldsMetaData(revisions[r], "published", "en")
    /\ MetaOf(revisions, q) # <<>>
    /\ \A i \in DOMAIN MetaOf(revisions, q) :
         MetaOf(revisions, q)[i].status = "declined"

\* C4: after a user without the permission saves the publish view of a
\* revision, every metadata row of that revision has status 'updated' and
\* the metadata rows of every other revision are as they were.
C4_UpdatedAndOthersUnchanged ==
  \A object_id \in Objects, revision_id \in DOMAIN revisions,
     language \in LANGUAGES :
    \A post \in ValidPosts(object_id) :
      LET out  == PublishViewOut(object_id, revision_id, FALSE, language,
                                 "POST", post)
          done == After(out)
      IN PublishSaved(out) =>
           /\ \A i \in DOMAIN MetaOf(done.revisions, revision_id) :
                MetaOf(done.revisions, revision_id)[i].status = "updated"
           /\ \A q \in DOMAIN revisions :
                q # revision_id =>
                  MetaOf(done.revisions, q) = MetaOf(revisions, q)

\* A revision whose rows are all 'updated' beside an earlier revision of the
\* same object that is still a draft.
C4_Witness ==
  \E o \in Objects, r \in DOMAIN revisions, q \in DOMAIN revisions :
    /\ q < r
    /\ HoldsVersion(revisions[r], o, MODEL)
    /\ HoldsVersion(revisions[q], o, MODEL)
    /\ MetaOf(revisions, r) # <<>>
    /\ \A i \in DOMAIN MetaOf(revisions, r) :
         MetaOf(revisions, r)[i].status = "updated"
    /\ IsDraft(revisions[q])

\* C5: a save of the publish view by a user without the permission creates a
\* new revision of the object with 'draft' metadata in the language of the
\* request; the object then still has a draft, and a change_view request of
\* a user without the permission, in that language and not through the
\* 'current' URL, is redirected to the new revision.
C5_SaveWithoutPermissionMakesDraft ==
  \A object_id \in Objects, revision_id \in DOMAIN revisions,
     language \in LANGUAGES :
    \A post \in ValidPosts(object_id) :
      LET out  == PublishViewOut(object_id, revision_id, FALSE, language,
                                 "POST", post)
          done == After(out)
          new  == Len(revisions) + 1
          then == change_view([Begin EXCEPT !.revisions = done.revisions,
                                            !.db = done.db],
                              FALSE, language, object_id, FALSE, extra_context,
                              "GET", NoPost)
      IN PublishSaved(out) =>
           /\ Len(done.revisions) = new
           /\ HoldsVersion(done.revisions[new], object_id, MODEL)
           /\ HoldsMetaData(done.revisions[new], "draft", language)
           /\ has_draft(done.revisions, object_id, language) # 0
           /\ Redirects(then, "drafts/%s/")
           /\ then.pk = new

\* The publish view of a draft was saved without the permission while an
\* older draft of the object existed: the draft shown is 'updated', the
\* newest revision is the draft the save created.
C5_Witness ==
  \E o \in Objects, q \in DOMAIN revisions, r \in DOMAIN revisions :
    /\ q < r /\ r < Len(revisions)
    /\ HoldsVersion(revisions[q], o, MODEL)
    /\ HoldsMetaData(revisions[q], "draft", "fr")
    /\ HoldsVersion(revisions[r], o, MODEL)
    /\ HoldsMetaData(revisions[r], "updated", "fr")
    /\ HoldsVersion(revisions[Len(revisions)], o, MODEL)
    /\ HoldsMetaData(revisions[Len(revisions)], "draft", "fr")

\* The place of a status in the workflow draft -> updated/declined -> published.
Rank(status) ==
  CASE status = "draft" -> 0
    [] status = "published" -> 2
    [] OTHER -> 1

\* C6: no request moves the status of a metadata row backward in the order
\* draft, then updated or declined, then published.
C6_StatusMovesForward ==
  [][\A r \in DOMAIN revisions :
       \A i \in DOMAIN MetaOf(revisions, r) :
         Rank(MetaOf(revisions', r)[i].status) >= Rank(MetaOf(revisions, r)[i].status)]_vars

\* A view displays revision r: it renders the revision form filled with the
\* data of r.
Displays(out, r) == ~out.raised /\ out.response = "revision_form" /\ out.pk = r

\* C7 as stated: no view displays a draft revision to a user who holds
\* can_approve_for_publication.
C7_DraftHiddenFromPublishers ==
  \A object_id \in Objects, language \in LANGUAGES, r \in DOMAIN revisions :
    IsDraft(revisions[r]) =>
      /\ ~Displays(PublishViewOut(object_id, r, TRUE, language, "GET", NoPost), r)
      /\ \A current \in BOOLEAN :
           ~Displays(ChangeViewOut(object_id, TRUE, language, current, "GET",
                                   NoPost), r)
      /\ ~Displays(drafts_view(Begin, language, object_id), r)

\* C7 amended: publish_view displays a draft of the object, requested in the
\* language of the draft, to every user, with or without the permission;
\* change_view and drafts_view display no revision to anyone.
C7_DraftShownByPublishViewOnly ==
  \A object_id \in Objects, language \in LANGUAGES, can_approve \in Users :
    /\ \A r \in DOMAIN revisions :
         (HoldsVersion(revisions[r], object_id, MODEL)
            /\ HoldsMetaData(revisions[r], "draft", language)) =>
           Displays(PublishViewOut(object_id, r, can_approve, language, "GET",
                                   NoPost), r)
    /\ \A current \in BOOLEAN :
         ChangeViewOut(object_id, can_approve, language, current, "GET",
                       NoPost).response \in {"change_form", "redirect"}
    /\ drafts_view(Begin, language, object_id).response = "object_history"

\* A draft exists that publish_view displays to a user holding the permission.
C7_Witness ==
  \E object_id \in Objects, r \in DOMAIN revisions :
    /\ IsDraft(revisions[r])
    /\ Displays(PublishViewOut(object_id, r, TRUE, "en", "GET", NoPost), r)

\* The tables a request writes.
Persistent(tx) ==
  [db |-> tx.db, revisions |-> tx.revisions, message_set |-> tx.message_set,
   log_entries |-> tx.log_entries]

\* C8: a publish_view request that raises leaves every table as it was and
\* creates no revision; one that saves leaves all its writes together: the
\* new revision with the version of the object, the log entry, the new
\* status of the metadata of the revision shown and, with the permission,
\* the posted value in the object's row.
C8_PublishViewAtomic ==
  \A object_id \in Objects, revision_id \in DOMAIN revisions,
     can_approve \in Users, language \in LANGUAGES :
    \A post \in Posts(object_id) :
      LET out  == PublishViewOut(object_id, revision_id, can_approve, language,
                                 "POST", post)
          done == After(out)
          shown == MetaOf(done.revisions, revision_id)
      IN /\ out.raised => Persistent(done) = Persistent(Begin)
         /\ PublishSaved(out) =>
              /\ Len(done.revisions) = Len(revisions) + 1
              /\ HoldsVersion(done.revisions[Len(done.revisions)], object_id, MODEL)
              /\ done.log_entries = log_entries + 1
              /\ shown[Len(shown)].status =
                   (IF can_approve THEN "published" ELSE "updated")
              /\ can_approve => done.db[object_id].value = post.value

\* A request that raises after it has written: inside its transaction the
\* object's row or a metadata row already differs from the database.
C8_Witness ==
  \E object_id \in Objects, revision_id \in DOMAIN revisions,
     can_approve \in Users, language \in LANGUAGES :
    \E post \in Posts(object_id) :
      LET out == PublishViewOut(object_id, revision_id, can_approve, language,
                                "POST", post)
      IN /\ out.raised /\ out.response = "500"
         /\ out.tx.db # db
         /\ out.tx.objects # {}
         /\ Len(revisions) < MaxRevisions

\* C9: change_view redirects to 'drafts/<pk>/' exactly when the object has a
\* draft in the language of the request, the request did not come through
\* the 'current' URL and the user lacks the permission, and pk is then the
\* newest revision that holds a version of the object and a 'draft' row in
\* that language; in every other case it is the editing view of the live
\* object that answers (its form, or its redirect after a save).
C9_ChangeViewRedirect ==
  \A object_id \in Objects, can_approve \in Users, language \in LANGUAGES,
     current \in BOOLEAN, method \in {"GET", "POST"} :
    \A post \in (IF method = "POST" THEN Posts(object_id) ELSE {NoPost}) :
      LET out == ChangeViewOut(object_id, can_approve, language, current,
                               method, post)
          drafts == {r \in DOMAIN revisions :
                       /\ \E ver \in revisions[r].version_set :
                            ver = Version(MODEL, object_id)
                       /\ \E i \in DOMAIN MetaOf(revisions, r) :
                            MetaOf(revisions, r)[i] = MetaData("draft", language)}
      IN /\ Redirects(out, "drafts/%s/") <=>
              (drafts # {} /\ ~current /\ ~can_approve)
         /\ Redirects(out, "drafts/%s/") =>
              (out.pk \in drafts /\ \A r \in drafts : r <= out.pk)
         /\ ~Redirects(out, "drafts/%s/") =>
              \/ out.response = "change_form" /\ out.pk = 0
              \/ ChangeSaved(out)
              \/ out.raised /\ out.response = "500"

\* An object with two drafts in a language and with none in the other: a
\* user without the permission is redirected to the newer in the one
\* language and gets the editing view in the other.
C9_Witness ==
  \E object_id \in Objects :
    /\ has_draft(revisions, object_id, "en") >= 2
    /\ has_draft(revisions, object_id, "fr") = 0
    /\ Redirects(ChangeViewOut(object_id, FALSE, "en", FALSE, "GET", NoPost),
                 "drafts/%s/")
    /\ ChangeViewOut(object_id, FALSE, "fr", FALSE, "GET", NoPost).response
         = "change_form"

\* C10: when the requested revision holds a version of the object but no
\* metadata row in the language of the request, publish_view, for GET and
\* POST and for every user, leaves the objects, the revisions and the
\* metadata as they are, adds one user message and redirects to
\* '../../current'.
C10_NoDraftForLanguage ==
  \A object_id \in Objects, revision_id \in DOMAIN revisions,
     can_approve \in Users, language \in LANGUAGES, method \in {"GET", "POST"} :
    \A post \in (IF method = "POST" THEN Posts(object_id) ELSE {NoPost}) :
      LET out  == PublishViewOut(object_id, revision_id, can_approve, language,
                                 method, post)
          done == After(out)
      IN (/\ HoldsVersion(revisions[revision_id], object_id, MODEL)
          /\ \A i \in DOMAIN MetaOf(revisions, revision_id) :
               MetaOf(revisions, revision_id)[i].language # language) =>
           /\ Redirects(out, "../../current")
           /\ done.db = db
           /\ done.revisions = revisions
           /\ done.log_entries = log_entries
           /\ done.message_set = message_set + 1

\* The message has been added: a row is in message_set while a revision
\* with a draft in one language only exists.
C10_Witness ==
  /\ message_set > 0
  /\ \E r \in DOMAIN revisions :
       /\ MetaOf(revisions, r) # <<>>
       /\ \A i \in DOMAIN MetaOf(revisions, r) :
            MetaOf(revisions, r)[i].language = "fr"

\* The revisions that hold a version of the object of self.model, oldest
\* first in primary-key order.
RevisionsOf(object_id) ==
  {r \in DOMAIN revisions : HoldsVersion(revisions[r], object_id, MODEL)}

\* The object was created by a user without the permission: its first
\* revision carries the metadata save_model adds for such a user.
CreatedWithoutPermission(object_id) ==
  \E r \in RevisionsOf(object_id) :
    /\ \A q \in RevisionsOf(object_id) : r <= q
    /\ MetaOf(revisions, r) # <<>>

\* A user with the permission has saved the object: one of its revisions
\* was made without metadata.
SavedWithPermission(object_id) ==
  \E r \in RevisionsOf(object_id) : MetaOf(revisions, r) = <<>>

\* C11: the add view of a user without the permission stores the new object
\* with published = False, and an object created that way stays unpublished,
\* outside what EasyPublisherModelManager returns, as long as no user with
\* the permission has saved it.
C11_NewObjectUnpublished ==
  /\ \A language \in LANGUAGES :
       \A post \in ValidPosts(next_pk(db)) :
         LET out  == AddViewOut(FALSE, language, "POST", post)
             done == After(out)
         IN (next_pk(db) <= MaxObjects /\ ChangeSaved(out)) =>
              /\ DOMAIN done.db = DOMAIN db \cup {next_pk(db)}
              /\ done.db[next_pk(db)].published = FALSE
              /\ next_pk(db) \notin get_query_set(done.db)
  /\ \A object_id \in DOMAIN db :
       (CreatedWithoutPermission(object_id) /\ ~SavedWithPermission(object_id)) =>
         /\ db[object_id].published = FALSE
         /\ object_id \notin get_query_set(db)

\* An object created without the permission that a user without the
\* permission has saved again through the publish view of its draft: it is
\* still unpublished and the manager does not return it.
C11_Witness ==
  \E object_id \in DOMAIN db :
    /\ CreatedWithoutPermission(object_id)
    /\ ~SavedWithPermission(object_id)
    /\ Cardinality(RevisionsOf(object_id)) >= 2
    /\ \E r \in RevisionsOf(object_id) : HoldsMetaData(revisions[r], "updated", "en")
    /\ ~db[object_id].published
    /\ get_query_set(db) # DOMAIN db

\* C12: every list IndexView.get_queryset may return holds at most 5
\* questions, all of them when fewer than 5 exist, no question twice, in
\* descending order of pub_date, and no question left out has a later
\* pub_date than one that is listed.
C12_LatestFiveQuestions ==
  \A result \in get_queryset(questions) :
    /\ Len(result) <= 5
    /\ Len(result) = (IF Len(questions) < 5 THEN Len(questions) ELSE 5)
    /\ \A i \in DOMAIN result : result[i] \in DOMAIN questions
    /\ \A i \in DOMAIN result, j \in DOMAIN result :
         /\ (i # j) => result[i] # result[j]
         /\ (i < j) => questions[result[i]] >= questions[result[j]]
    /\ \A q \in DOMAIN questions :
         (\A i \in DOMAIN result : result[i] # q) =>
           \A i \in DOMAIN result : questions[q] <= questions[result[i]]

\* IndexView has listed five of more than five questions: the oldest, which
\* is the first row of the table, is left out and the newest, a later row,
\* heads the list.
C12_Witness ==
  /\ Len(questions) > 5
  /\ Len(latest_question_list) = 5
  /\ latest_question_list \in get_queryset(questions)
  /\ \A i \in DOMAIN latest_question_list : latest_question_list[i] # 1
  /\ questions[latest_question_list[1]] > questions[latest_question_list[5]]
  /\ questions[latest_question_list[5]] > questions[1]

\* C13: after a user with the permission saves the publish view of a
\* revision of an object, the object has no draft in any language:
\* get_draft_revisions is empty, has_draft is 0 and change_view does not
\* redirect a user without the permission.
C13_NoDraftAfterPublish ==
  \A object_id \in Objects, revision_id \in DOMAIN revisions,
     language \in LANGUAGES :
    \A post \in ValidPosts(object_id) :
      LET out  == PublishViewOut(object_id, revision_id, TRUE, language,
                                 "POST", post)
          done == After(out)
      IN PublishSaved(out) =>
           \A lang \in LANGUAGES :
             /\ get_draft_revisions(done.revisions, object_id, lang) = {}
             /\ has_draft(done.revisions, object_id, lang) = 0
             /\ \A current \in BOOLEAN :
                  ~Redirects(change_view([Begin EXCEPT !.revisions = done.revisions,
                                                       !.db = done.db],
                                         FALSE, lang, object_id, current,
                                         extra_context, "GET", NoPost),
                             "drafts/%s/")

\* An object that had drafts in both languages has been published from its
\* 'en' draft: the draft in 'fr' is declined with it, and a user without
\* the permission gets the editing view in both languages.
C13_Witness ==
  \E object_id \in Objects, r \in DOMAIN revisions, q \in DOMAIN revisions :
    /\ HoldsVersion(revisions[r], object_id, MODEL)
    /\ HoldsVersion(revisions[q], object_id, MODEL)
    /\ HoldsMetaData(revisions[r], "published", "en")
    /\ HoldsMetaData(revisions[q], "declined", "fr")
    /\ \A i \in DOMAIN MetaOf(revisions, r) : MetaOf(revisions, r)[i].language = "en"
    /\ \A lang \in LANGUAGES :
         /\ has_draft(revisions, object_id, lang) = 0
         /\ ChangeViewOut(object_id, FALSE, lang, FALSE, "GET", NoPost).response
              = "change_form"

\* The metadata rows with status 'published' among the revisions of the
\* object, as (revision, row) pairs.
PublishedRows(object_id) ==
  {<<r, i>> \in RevisionsOf(object_id) \X (1..(2 + MaxInlines)) :
     /\ i \in DOMAIN MetaOf(revisions, r)
     /\ MetaOf(revisions, r)[i].status = "published"}

\* C14: in every reachable state at most one metadata row among all the
\* revisions of an object has status 'published'.
C14_AtMostOnePublished ==
  /\ \A r \in DOMAIN revisions : Len(MetaOf(revisions, r)) <= 2 + MaxInlines
  /\ \A object_id \in Objects : Cardinality(PublishedRows(object_id)) <= 1

\* A revision with two metadata rows has been published, only its last row
\* is 'published', and another revision of the object was declined with it.
C14_Witness ==
  \E object_id \in Objects, r \in DOMAIN revisions, q \in DOMAIN revisions :
    /\ r # q
    /\ HoldsVersion(revisions[r], object_id, MODEL)
    /\ HoldsVersion(revisions[q], object_id, MODEL)
    /\ Len(MetaOf(revisions, r)) = 2
    /\ PublishedRows(object_id) = {<<r, 2>>}
    /\ MetaOf(revisions, q) # <<>>
    /\ \A i \in DOMAIN MetaOf(revisions, q) :
         MetaOf(revisions, q)[i].status = "declined"

\* The POSTs in which the main form or an inline formset does not validate.
InvalidPosts(object_id) ==
  {p \in Posts(object_id) : ~p.is_valid \/ ~p.all_valid}

\* C15: a POST to the publish view of a revision (one that has metadata in
\* the language of the request, so that the form is built) in which the main
\* form or an inline formset does not validate writes nothing: no table
\* changes, nothing joins the revision being built, no metadata is added, no
\* status changes, no revision is created, and the answer is the revision
\* form with its errors, not a redirect.
C15_InvalidPostChangesNothing ==
  \A object_id \in Objects, revision_id \in DOMAIN revisions,
     can_approve \in Users, language \in LANGUAGES :
    \A post \in InvalidPosts(object_id) :
      LET out  == PublishViewOut(object_id, revision_id, can_approve, language,
                                 "POST", post)
      IN (/\ HoldsVersion(revisions[revision_id], object_id, MODEL)
          /\ \E i \in DOMAIN MetaOf(revisions, revision_id) :
               MetaOf(revisions, revision_id)[i].language = language) =>
           /\ out.tx = Begin
           /\ Persistent(After(out)) = Persistent(Begin)
           /\ ~out.raised
           /\ out.response = "revision_form"
           /\ out.errors

\* A draft of an admin with an inline is open in the publish view, and a
\* POST whose main form validates while a formset does not is answered with
\* the form and its errors.
C15_Witness ==
  /\ inline_instances > 0
  /\ \E object_id \in Objects, r \in DOMAIN revisions :
       /\ HoldsVersion(revisions[r], object_id, MODEL)
       /\ HoldsMetaData(revisions[r], "draft", "en")
       /\ \E post \in InvalidPosts(object_id) :
            /\ post.is_valid /\ ~post.all_valid
            /\ PublishViewOut(object_id, r, FALSE, "en", "POST", post).errors

\* C16: the context change_view renders for a request through the 'current'
\* URL holds 'has_draft' only if the object of the request has a draft (in
\* the language of the request) at that time.
C16_CurrentContextIndependent ==
  \A object_id \in Objects, can_approve \in Users, language \in LANGUAGES :
    LET out == ChangeViewOut(object_id, can_approve, language, TRUE, "GET", NoPost)
    IN (out.response = "change_form" /\ out.has_draft # 0) =>
         has_draft(revisions, object_id, language) # 0

\* The objects whose publish view can show the revision: those it holds a
\* version of.
Shown == {object_id \in Objects :
            \E i \in DOMAIN revision_versions :
              /\ revision_versions[i].content_type = MODEL
              /\ revision_versions[i].object_id = object_id}

\* The versions of the revision related to object_id that are versions of
\* the inline object k.
VersionsOf(object_id, k) ==
  {i \in Range(related_versions(revision_versions, object_id)) :
     revision_versions[i].object_id = k}

\* C17: in every formset.initial the publish view may build on GET, the row
\* of a live inline object of the object (the n-th row for the n-th object
\* of formset.queryset) holds, when the revision has no related version of
\* it, its id and its live values with DELETE set, and, when the revision
\* has one, the values of its version in the revision (the last such
\* version) without DELETE.
C17_LiveRowsFromRevision ==
  \A object_id \in Shown :
    \A initial \in formset_initial(revision_versions, related_objects, object_id) :
      LET qs == queryset(related_objects, object_id)
      IN /\ Len(initial) >= Len(qs)
         /\ \A n \in DOMAIN qs :
              LET k == qs[n]
                  of == VersionsOf(object_id, k)
              IN IF of = {}
                 THEN /\ initial[n].DELETE
                      /\ initial[n].id = k
                      /\ initial[n].value = related_objects[k].value
                      /\ initial[n].fk_name = related_objects[k].fk_name
                 ELSE LET last == CHOOSE i \in of : \A j \in of : j <= i
                      IN /\ ~initial[n].DELETE
                         /\ initial[n].value = revision_versions[last].field_dict.value
                         /\ initial[n].fk_name = object_id

\* The formset has been rebuilt for an object with two live inline objects:
\* one is not in the revision and its row has DELETE, the other is, with a
\* value that differs from the live one, and its row has the value of the
\* revision.
C17_Witness ==
  /\ formset.instance \in Shown
  /\ LET qs == queryset(related_objects, formset.instance)
     IN \E n \in DOMAIN qs, m \in DOMAIN qs :
          /\ formset.initial[n].DELETE
          /\ VersionsOf(formset.instance, qs[n]) = {}
          /\ ~formset.initial[m].DELETE
          /\ VersionsOf(formset.instance, qs[m]) # {}
          /\ formset.initial[m].value # related_objects[qs[m]].value

\* C18: every formset.initial the publish view may build on GET has one row
\* for each related record: its rows come from different records, and their
\* number is the number of live inline objects of the object plus the
\* number of related versions left by the deduplication that match no live
\* inline object.
C18_OneRowPerRecord ==
  \A object_id \in Shown :
    \A related \in deduplicate(revision_versions,
                                related_versions(revision_versions, object_id)) :
      \A initial \in formset_initial(revision_versions, related_objects, object_id) :
        LET qs == queryset(related_objects, object_id)
            unmatched == {i \in Range(related) :
                            revision_versions[i].object_id \notin Range(qs)}
        IN /\ \A n \in DOMAIN initial, m \in DOMAIN initial :
                n # m => initial[n].source # initial[m].source
           /\ Len(initial) = Len(qs) + Cardinality(unmatched)

\* C19: every list the deduplication of the related versions may give holds
\* only related versions, each version with key 'None' once, and for each
\* other object id of the related versions exactly one version, the last
\* with that id in the order of the revision.
C19_DeduplicateKeepsLast ==
  \A object_id \in Shown :
    LET related == related_versions(revision_versions, object_id)
    IN \A result \in deduplicate(revision_versions, related) :
         /\ Range(result) \subseteq Range(related)
         /\ \A n \in DOMAIN result, m \in DOMAIN result :
              n # m => result[n] # result[m]
         /\ \A i \in Range(related) :
              IF revision_versions[i].object_id = 0
              THEN i \in Range(result)
              ELSE /\ \E n \in DOMAIN result :
                        revision_versions[result[n]].object_id
                          = revision_versions[i].object_id
                   /\ (i \in Range(result)) <=>
                        \A j \in Range(related) :
                          revision_versions[j].object_id
                            = revision_versions[i].object_id => j <= i

\* The formset has been rebuilt from a revision with a version of an
\* unsaved inline object and two versions of one saved inline object that
\* differ in their value: the later of the two has a row, the earlier has
\* none, and the unsaved one has its row.
C19_Witness ==
  /\ formset.instance \in Shown
  /\ \E i \in DOMAIN revision_versions, j \in DOMAIN revision_versions,
        u \in DOMAIN revision_versions :
       /\ {i, j, u} \subseteq Range(related_versions(revision_versions, formset.instance))
       /\ i < j
       /\ revision_versions[i].object_id # 0
       /\ revision_versions[i].object_id = revision_versions[j].object_id
       /\ revision_versions[i].field_dict.value # revision_versions[j].field_dict.value
       /\ revision_versions[u].object_id = 0
       /\ \E n \in DOMAIN formset.initial :
            formset.initial[n].source = <<"version", j>>
       /\ \E n \in DOMAIN formset.initial :
            formset.initial[n].source = <<"version", u>>
       /\ \A n \in DOMAIN formset.initial :
            formset.initial[n].source # <<"version", i>>

\* C20: a save of the publish view by a user without the permission leaves
\* the many-to-many relations of the object in the database as they were,
\* like the row of the object.
C20_M2MUnchangedWithoutPermission ==
  \A object_id \in Objects, revision_id \in DOMAIN revisions,
     language \in LANGUAGES :
    \A post \in ValidPosts(object_id) :
      LET out  == PublishViewOut(object_id, revision_id, FALSE, language,
                                 "POST", post)
          done == After(out)
      IN PublishSaved(out) =>
           /\ done.db[object_id].m2m = db[object_id].m2m
           /\ done.db[object_id].value = db[object_id].value
           /\ done.db[object_id].published = db[object_id].published

====
